---------------------------- MODULE Spec2Model ----------------------------
(***************************************************************************)
(* Model of the authentication core of the duolingo-clone backend:         *)
(*   utils/auth_utils.py    password hashing and the JWT codec             *)
(*   services/auth_service.py   register / login / refresh flows           *)
(*   api/deps.py            identification of the caller of a protected    *)
(*                          endpoint                                       *)
(* Time is counted in ticks of 1/TicksPerSecond second; the JWT library    *)
(* stores and compares expiry in whole seconds.                            *)
(***************************************************************************)
EXTENDS Integers, Sequences, FiniteSets, TLC

VARIABLES
    users,      \* the user table: a sequence of rows, a row's index is its id
    clock,      \* the wall clock, in ticks
    advances,   \* how many times the clock has been advanced
    held,       \* the token pair the client received last
    last,       \* the request served last and its response, until delivered
    reg,        \* the register flows in progress, one per worker
    probe,      \* the codec call made last (token utilities called directly)
    knows,      \* per user, the password its owner registered with (history)
    hasher      \* the hasher call made last (password utilities called directly)

vars == <<users, clock, advances, held, last, reg, probe, knows, hasher>>

---------------------------------------------------------------------------
(* Bounds of the model *)

TicksPerSecond == 2
MaxAdvances == 4
MaxFlowAdvances == 2

---------------------------------------------------------------------------
(* core/settings.py: AuthSettings *)

SECRET_KEY == "your-secret-key-change-in-production"
REFRESH_TOKEN_SECRET_KEY == "kjnfjnfjdnjnfkjsnfsjnsjdfn"
ACCESS_TOKEN_EXPIRE_MINUTES == 30
REFRESH_TOKEN_EXPIRE_DAYS == 7

(* schemas/auth_schemas.py: TokenType *)
ACCESS == "access"
REFRESH == "refresh"
TokenType == {ACCESS, REFRESH}

---------------------------------------------------------------------------
(* Time: datetime.now() has sub-second resolution; timegm(utctimetuple())  *)
(* drops the fraction.                                                     *)

Seconds(c) == c \div TicksPerSecond

AccessTTL == ACCESS_TOKEN_EXPIRE_MINUTES * 60
RefreshTTL == REFRESH_TOKEN_EXPIRE_DAYS * 86400

---------------------------------------------------------------------------
(* Passwords and bcrypt.  A password is its first 72 bytes (head) and what *)
(* follows them (tail, "" when the password is no longer than 72 bytes).   *)
(* "L" stands for a head of exactly 72 bytes.                              *)

Passwords ==
    {[head |-> h, tail |-> ""] : h \in {"a", "b", "L"}}
        \cup {[head |-> "L", tail |-> t] : t \in {"x", "y"}}

Salts == {"s1", "s2"}

\* bcrypt reads at most 72 bytes of the secret
bcrypt_secret(password) == password.head

get_password_hash_with(password, salt) ==
    [scheme |-> "bcrypt", salt |-> salt, sum |-> <<salt, bcrypt_secret(password)>>]

\* pwd_context.verify: "raise" when the digest is of no known scheme
verify_password(plain_password, hashed_password) ==
    IF hashed_password.scheme # "bcrypt" THEN "raise"
    ELSE IF hashed_password.sum = <<hashed_password.salt, bcrypt_secret(plain_password)>>
         THEN "true" ELSE "false"

---------------------------------------------------------------------------
(* Token codec.  A token is the record of what its three segments hold:    *)
(* wf (it parses as a JWT), key (the secret its signature was made with),  *)
(* and the claims type, sub, email and exp (whole seconds).                *)

UserIds == 1..2

\* str(uuid) and the spellings uuid.UUID() accepts or rejects
Sub(form, id) == [form |-> form, id |-> id]
str_uuid(id) == Sub("canonical", id)
NoSub == Sub("missing", 0)

\* uuid.UUID(s): the id, or 0 for ValueError
uuid_UUID(s) == IF s.form \in {"canonical", "urn"} THEN s.id ELSE 0

isinstance_str(s) == s.form \in {"canonical", "urn", "garbage", "empty"}

Token(key, typ, sub, email, exp) ==
    [wf |-> TRUE, key |-> key, typ |-> typ, sub |-> sub, email |-> email, exp |-> exp]

MalformedToken ==
    [wf |-> FALSE, key |-> "", typ |-> "missing", sub |-> NoSub, email |-> "", exp |-> 0]

NoToken == [none |-> TRUE]

\* mutant: the copy of data loses its sub claim
create_refresh_token_nosub(data, now) ==
    Token(REFRESH_TOKEN_SECRET_KEY, REFRESH, NoSub, data.email,
          Seconds(now) + RefreshTTL)

create_refresh_token(data, now) ==
    Token(REFRESH_TOKEN_SECRET_KEY, REFRESH, data.sub, data.email,
          Seconds(now) + RefreshTTL)

\* mutant: the body of create_refresh_token pasted into create_access_token
create_access_token_pasted(data, expires_delta, now) ==
    Token(REFRESH_TOKEN_SECRET_KEY, REFRESH, data.sub, data.email,
          Seconds(now) + RefreshTTL)

create_access_token(data, expires_delta, now) ==
    Token(SECRET_KEY, ACCESS, data.sub, data.email,
          Seconds(now) + (IF expires_delta # 0 THEN expires_delta ELSE AccessTTL))

Raise(msg) == [ok |-> FALSE, err |-> msg, payload |-> MalformedToken]
Return(payload) == [ok |-> TRUE, err |-> "", payload |-> payload]

\* mutant: a token is taken as expired in the second its exp names
decode_token_strict(token, secret, now) ==
    IF ~token.wf THEN Raise("Invalid token")
    ELSE IF token.key # secret THEN Raise("Invalid token")
    ELSE IF token.exp <= Seconds(now) THEN Raise("Invalid token")
    ELSE IF token.sub.form = "int" THEN Raise("Invalid token")
    ELSE Return(token)

\* mutant: exp is not verified
decode_token_unexpiring(token, secret, now) ==
    IF ~token.wf THEN Raise("Invalid token")
    ELSE IF token.key # secret THEN Raise("Invalid token")
    ELSE IF token.sub.form = "int" THEN Raise("Invalid token")
    ELSE Return(token)

\* jwt.decode: structure, signature, then the registered claims exp and sub
decode_token(token, secret, now) ==
    IF ~token.wf THEN Raise("Invalid token")
    ELSE IF token.key # secret THEN Raise("Invalid token")
    ELSE IF token.exp < Seconds(now) THEN Raise("Invalid token")
    ELSE IF token.sub.form = "int" THEN Raise("Invalid token")
    ELSE Return(token)

\* mutant: one secret verifies both types
secret_for_single(token_type) == SECRET_KEY

secret_for(token_type) ==
    IF token_type = ACCESS THEN SECRET_KEY ELSE REFRESH_TOKEN_SECRET_KEY

\* mutant: the payload's sub must be a non-empty string
get_token_payload_subchecked(token, token_type, now) ==
    LET decoded == decode_token(token, secret_for(token_type), now) IN
    IF ~decoded.ok THEN decoded
    ELSE IF decoded.payload.typ \notin TokenType
         THEN Raise("Invalid token type in payload")
    ELSE IF decoded.payload.typ # token_type THEN Raise("Token type mismatch")
    ELSE IF decoded.payload.sub.form \in {"missing", "empty"}
         THEN Raise("Invalid token")
    ELSE decoded

get_token_payload(token, token_type, now) ==
    LET decoded == decode_token(token, secret_for(token_type), now) IN
    IF ~decoded.ok THEN decoded
    ELSE IF decoded.payload.typ \notin TokenType
         THEN Raise("Invalid token type in payload")
    ELSE IF decoded.payload.typ # token_type THEN Raise("Token type mismatch")
    ELSE decoded

---------------------------------------------------------------------------
(* The clock.  It only moves forward; the jumps land just before, on and   *)
(* just after the expiry of tokens issued earlier.                         *)

\* the codec call made last: the token, where it came from, and the result
\* of parsing it, which is read at the instant of the call
NoOut == [ok |-> FALSE, err |-> "not called", payload |-> MalformedToken]

NoProbe ==
    [token |-> NoToken, kind |-> "", sub |-> NoSub, iat |-> -1,
     expected |-> "", at |-> -1, out |-> NoOut]

Jumps == {1, AccessTTL * TicksPerSecond - 1, RefreshTTL * TicksPerSecond - 1}

Advance(d) ==
    /\ last.op = "none"
    /\ advances < MaxAdvances
    /\ clock' = clock + d
    /\ advances' = advances + 1
    /\ probe' = [probe EXCEPT !.expected = "", !.at = -1, !.out = NoOut]
    /\ UNCHANGED <<hasher,users, held, last, reg, knows>>

---------------------------------------------------------------------------
(* The token utilities called directly: a token is issued or handed in,    *)
(* then parsed with an expected type.                                      *)

\* subjects a caller may pass to the create_* functions: any string
IssueSubjects ==
    {str_uuid(i) : i \in UserIds} \cup {Sub("garbage", 0), Sub("empty", 0)}

CodecIssue(kind, sub) ==
    LET data == [sub |-> sub, email |-> "a@x.com"] IN
    /\ probe' = [NoProbe EXCEPT
                   !.token = IF kind = ACCESS
                             THEN create_access_token(data, AccessTTL, clock)
                             ELSE create_refresh_token(data, clock),
                   !.kind = kind, !.sub = sub, !.iat = clock]
    /\ UNCHANGED <<hasher,users, clock, advances, held, last, reg, knows>>

\* tokens made outside the service: any signing key, any payload
ForgeKeys == {SECRET_KEY, REFRESH_TOKEN_SECRET_KEY, "attacker-key"}
ForgeTypes == {ACCESS, REFRESH, "bogus", "missing"}
ForgeSubjects == {str_uuid(1), NoSub, Sub("int", 0)}

ForgedTokens(now) ==
    { Token(k, t, s, "a@x.com", e) :
        k \in ForgeKeys, t \in ForgeTypes, s \in ForgeSubjects,
        e \in {Seconds(now) - 1, Seconds(now) + AccessTTL} }
      \cup {MalformedToken}

CodecForge(token) ==
    /\ probe' = [NoProbe EXCEPT !.token = token, !.kind = "forged"]
    /\ UNCHANGED <<hasher,users, clock, advances, held, last, reg, knows>>

CodecParse(expected) ==
    /\ probe.token # NoToken
    /\ probe' = [probe EXCEPT
                   !.expected = expected, !.at = clock,
                   !.out = get_token_payload(probe.token, expected, clock)]
    /\ UNCHANGED <<hasher,users, clock, advances, held, last, reg, knows>>

---------------------------------------------------------------------------
(* The user table.  A row is [email, username, hashed_password,            *)
(* is_active]; its id is its index.  The lookups return the id, 0 for None.*)

Emails == {"a@x.com", "b@x.com"}
Usernames == {"alice", "a@x.com"}

get_user_by_email(us, email) ==
    IF \E i \in DOMAIN us : us[i].email = email
    THEN CHOOSE i \in DOMAIN us : us[i].email = email ELSE 0

get_user_by_username(us, username) ==
    IF \E i \in DOMAIN us : us[i].username = username
    THEN CHOOSE i \in DOMAIN us : us[i].username = username ELSE 0

get_user_by_id(us, id) == IF id \in DOMAIN us THEN id ELSE 0

\* mutant: only the email column carries a unique index
unique_violation_email_only(us, row) ==
    \E i \in DOMAIN us : us[i].email = row.email

\* models/user_models.py: the unique indexes on email and username
unique_violation(us, row) ==
    \E i \in DOMAIN us : us[i].email = row.email \/ us[i].username = row.username

\* models/user_models.py: the column default of is_active
is_active_default == TRUE

\* mutant: the row of a refused commit stays in the table
db_commit_kept(us, row) ==
    IF unique_violation(us, row)
    THEN [ok |-> FALSE, users |-> Append(us, row)]
    ELSE [ok |-> TRUE, users |-> Append(us, row)]

\* db.add; db.commit: the row is stored, or IntegrityError
db_commit(us, row) ==
    IF unique_violation(us, row)
    THEN [ok |-> FALSE, users |-> us]
    ELSE [ok |-> TRUE, users |-> Append(us, row)]

---------------------------------------------------------------------------
(* Responses *)

HTTPException(status, detail) ==
    [status |-> status, detail |-> detail, access_token |-> NoToken,
     refresh_token |-> NoToken, token_type |-> "", user |-> 0]

TokenResponse(status, access_token, refresh_token) ==
    [status |-> status, detail |-> "", access_token |-> access_token,
     refresh_token |-> refresh_token, token_type |-> "bearer", user |-> 0]

UserResponse(id) ==
    [status |-> 200, detail |-> "", access_token |-> NoToken,
     refresh_token |-> NoToken, token_type |-> "", user |-> id]

\* an exception no handler classifies
InternalServerError == HTTPException(500, "Internal Server Error")

NoResponse == HTTPException(0, "")

---------------------------------------------------------------------------
(* services/auth_service.py: AuthService *)

\* mutant: the tokens name the first user of the table
generate_tokens_for_user_first(us, id, status, now) ==
    LET data == [sub |-> str_uuid(1), email |-> us[1].email] IN
    TokenResponse(status,
                  create_access_token(data, AccessTTL, now),
                  create_refresh_token(data, now))

generate_tokens_for_user(us, id, status, now) ==
    LET data == [sub |-> str_uuid(id), email |-> us[id].email] IN
    TokenResponse(status,
                  create_access_token(data, AccessTTL, now),
                  create_refresh_token(data, now))

email_registered == HTTPException(400, "Email already registered")
username_taken == HTTPException(400, "Username already taken")
integrity_error ==
    HTTPException(400, "User with this email or username already exists")

new_user(user_data, salt) ==
    [email |-> user_data.email, username |-> user_data.username,
     hashed_password |-> get_password_hash_with(user_data.password, salt),
     is_active |-> is_active_default]

\* register_user_with_tokens, run without interleaving: [res, users]
register_user_with_tokens(us, user_data, salt, now) ==
    IF get_user_by_email(us, user_data.email) # 0
    THEN [res |-> email_registered, users |-> us]
    ELSE IF get_user_by_username(us, user_data.username) # 0
    THEN [res |-> username_taken, users |-> us]
    ELSE LET done == db_commit(us, new_user(user_data, salt)) IN
         IF ~done.ok THEN [res |-> integrity_error, users |-> us]
         ELSE [res |-> generate_tokens_for_user(done.users, Len(done.users), 201, now),
               users |-> done.users]

\* the user's id, 0 for None, -1 when verify_password raises
authenticate_user(us, email_or_username, password) ==
    LET by_email == get_user_by_email(us, email_or_username)
        user == IF by_email # 0 THEN by_email
                ELSE get_user_by_username(us, email_or_username)
    IN  IF user = 0 THEN 0
        ELSE LET v == verify_password(password, us[user].hashed_password) IN
             IF v = "raise" THEN -1 ELSE IF v = "false" THEN 0 ELSE user

login_user(us, login_data, now) ==
    LET user == authenticate_user(us, login_data.email_or_username, login_data.password)
    IN  IF user = -1 THEN InternalServerError
        ELSE IF user = 0
        THEN HTTPException(401, "Incorrect email/username or password")
        ELSE IF ~us[user].is_active THEN HTTPException(403, "Inactive user")
        ELSE generate_tokens_for_user(us, user, 200, now)

refresh_credentials_exception ==
    HTTPException(401, "Could not validate refresh token")

\* mutant: the refresh token is rotated, not echoed
refresh_access_token_rotating(us, refresh_token, now) ==
    LET got == get_token_payload(refresh_token, REFRESH, now)
        user_id == got.payload.sub
        user == get_user_by_id(us, uuid_UUID(user_id))
    IN  IF ~got.ok THEN refresh_credentials_exception
        ELSE IF ~isinstance_str(user_id) \/ user_id.form = "empty"
        THEN refresh_credentials_exception
        ELSE IF uuid_UUID(user_id) = 0 THEN refresh_credentials_exception
        ELSE IF user = 0 THEN refresh_credentials_exception
        ELSE IF ~us[user].is_active THEN refresh_credentials_exception
        ELSE generate_tokens_for_user(us, user, 200, now)

\* mutant: a disabled user is told so
refresh_access_token_telling(us, refresh_token, now) ==
    LET got == get_token_payload(refresh_token, REFRESH, now)
        user_id == got.payload.sub
        user == get_user_by_id(us, uuid_UUID(user_id))
    IN  IF ~got.ok THEN refresh_credentials_exception
        ELSE IF ~isinstance_str(user_id) \/ user_id.form = "empty"
        THEN refresh_credentials_exception
        ELSE IF uuid_UUID(user_id) = 0 THEN refresh_credentials_exception
        ELSE IF user = 0 THEN refresh_credentials_exception
        ELSE IF ~us[user].is_active THEN HTTPException(403, "Inactive user")
        ELSE TokenResponse(200,
                 create_access_token([sub |-> str_uuid(user), email |-> us[user].email],
                                     AccessTTL, now),
                 refresh_token)

refresh_access_token(us, refresh_token, now) ==
    LET got == get_token_payload(refresh_token, REFRESH, now)
        user_id == got.payload.sub
        user == get_user_by_id(us, uuid_UUID(user_id))
    IN  IF ~got.ok THEN refresh_credentials_exception
        ELSE IF ~isinstance_str(user_id) \/ user_id.form = "empty"
        THEN refresh_credentials_exception
        ELSE IF uuid_UUID(user_id) = 0 THEN refresh_credentials_exception
        ELSE IF user = 0 THEN refresh_credentials_exception
        ELSE IF ~us[user].is_active THEN refresh_credentials_exception
        ELSE TokenResponse(200,
                 create_access_token([sub |-> str_uuid(user), email |-> us[user].email],
                                     AccessTTL, now),
                 refresh_token)

---------------------------------------------------------------------------
(* api/deps.py *)

credentials_exception == HTTPException(401, "Could not validate credentials")

\* the user's id, 0 when credentials_exception is raised
get_current_user(us, token, now) ==
    LET got == get_token_payload(token, ACCESS, now)
        user_id == got.payload.sub
    IN  IF ~got.ok THEN 0
        ELSE IF ~isinstance_str(user_id) THEN 0
        ELSE IF uuid_UUID(user_id) = 0 THEN 0
        ELSE get_user_by_id(us, uuid_UUID(user_id))

\* mutant: the route depends on get_current_user alone
get_current_active_user_ungated(us, token, now) ==
    LET current_user == get_current_user(us, token, now) IN
    IF current_user = 0 THEN credentials_exception
    ELSE UserResponse(current_user)

\* GET /auth/me: get_current_active_user, then get_user_profile
get_current_active_user(us, token, now) ==
    LET current_user == get_current_user(us, token, now) IN
    IF current_user = 0 THEN credentials_exception
    ELSE IF ~us[current_user].is_active THEN HTTPException(403, "Inactive user")
    ELSE UserResponse(current_user)

---------------------------------------------------------------------------
(* Requests served one at a time: a handler runs to its response, which    *)
(* stays in `last` until the client takes it.                              *)

NoPassword == [head |-> "", tail |-> ""]

Request(email, username, password, email_or_username, token) ==
    [email |-> email, username |-> username, password |-> password,
     email_or_username |-> email_or_username, token |-> token]

UserRegister(email, username, password) ==
    Request(email, username, password, "", NoToken)
UserLogin(email_or_username, password) ==
    Request("", "", password, email_or_username, NoToken)
BearerToken(token) == Request("", "", NoPassword, "", token)

NoRequest ==
    [op |-> "none", req |-> BearerToken(NoToken), res |-> NoResponse, at |-> -1]

NoPair ==
    [access_token |-> NoToken, refresh_token |-> NoToken, op |-> "none", at |-> -1]

\* what the requests of the flows are drawn from
RegisterPasswords == {[head |-> "a", tail |-> ""], [head |-> "L", tail |-> "x"]}
LoginPasswords == RegisterPasswords \cup {[head |-> "L", tail |-> "y"]}
LoginIdentifiers == Emails \cup Usernames \cup {"nobody"}

\* tokens signed with the service's secrets whose subject is not the
\* canonical id of a registered user
CraftedSubjects ==
    {Sub("urn", 1), Sub("garbage", 0), Sub("empty", 0), Sub("int", 0), NoSub,
     str_uuid(2)}

CraftedTokens(now) ==
    { Token(secret_for(k), k, s, "a@x.com", Seconds(now) + AccessTTL) :
        k \in TokenType, s \in CraftedSubjects } \cup {MalformedToken}

PresentedTokens ==
    ({held.access_token, held.refresh_token} \ {NoToken}) \cup CraftedTokens(clock)

Register(user_data, salt) ==
    LET r == register_user_with_tokens(users, user_data, salt, clock) IN
    /\ last.op = "none"
    /\ users' = r.users
    /\ knows' = IF Len(r.users) > Len(users)
                THEN Append(knows, user_data.password) ELSE knows
    /\ last' = [op |-> "register", req |-> user_data, res |-> r.res, at |-> clock]
    /\ UNCHANGED <<hasher,clock, advances, held, reg, probe>>

Login(login_data) ==
    /\ last.op = "none"
    /\ last' = [op |-> "login", req |-> login_data,
                res |-> login_user(users, login_data, clock), at |-> clock]
    /\ UNCHANGED <<hasher,users, clock, advances, held, reg, probe, knows>>

Refresh(refresh_data) ==
    /\ last.op = "none"
    /\ last' = [op |-> "refresh", req |-> refresh_data,
                res |-> refresh_access_token(users, refresh_data.token, clock),
                at |-> clock]
    /\ UNCHANGED <<hasher,users, clock, advances, held, reg, probe, knows>>

Identify(bearer) ==
    /\ last.op = "none"
    /\ last' = [op |-> "identify", req |-> bearer,
                res |-> get_current_active_user(users, bearer.token, clock),
                at |-> clock]
    /\ UNCHANGED <<hasher,users, clock, advances, held, reg, probe, knows>>

\* the client takes the response and keeps the tokens of a token response;
\* held.op names the flow its refresh token came from, held.at the clock of
\* that flow
Deliver ==
    /\ last.op # "none"
    /\ held' = IF last.res.token_type = "bearer"
               THEN [access_token |-> last.res.access_token,
                     refresh_token |-> last.res.refresh_token,
                     op |-> IF last.op = "refresh" THEN held.op ELSE last.op,
                     at |-> IF last.op = "refresh" THEN held.at ELSE last.at]
               ELSE held
    /\ last' = NoRequest
    /\ UNCHANGED <<hasher,users, clock, advances, reg, probe, knows>>

\* an account is disabled or enabled (no handler of this core does it)
SetActive(id, active) ==
    /\ last.op = "none"
    /\ id \in DOMAIN users
    /\ users[id].is_active # active
    /\ users' = [users EXCEPT ![id].is_active = active]
    /\ UNCHANGED <<hasher,clock, advances, held, last, reg, probe, knows>>

\* how far the clock moves between two requests: the jumps of the codec, one
\* tick more than the refresh TTL, and one that carries the clock past the
\* expiry of every token issued so far
FlowJumps ==
    Jumps \cup {RefreshTTL * TicksPerSecond + 1, (RefreshTTL + 1) * TicksPerSecond}

\* the clock moves between two requests
Tick(d) ==
    /\ advances < MaxFlowAdvances
    /\ Advance(d)

---------------------------------------------------------------------------
(* Register flows of concurrent workers: register_user yields at each      *)
(* await, so its two lookups and its commit are separate steps.            *)

Procs == {1, 2}

NoRow ==
    [email |-> "", username |-> "",
     hashed_password |-> get_password_hash_with(NoPassword, ""), is_active |-> FALSE]

\* a worker: where it is in register_user, its locals, its response, and
\* (history) how many rows the table held when it took the request
Idle ==
    [pc |-> "idle", user_data |-> UserRegister("", "", NoPassword),
     db_user |-> NoRow, res |-> NoResponse, began |-> 0]

\* mutant: the lookup by email is left out
RegCheckEmail_skipped(p, user_data) ==
    /\ reg[p].pc = "idle"
    /\ reg' = [reg EXCEPT ![p] =
                 [Idle EXCEPT !.pc = "checked_email", !.user_data = user_data,
                              !.began = Len(users)]]
    /\ UNCHANGED <<hasher,users, clock, advances, held, last, probe, knows>>

\* mutant: the username is looked up first
RegCheckEmail_username_first(p, user_data) ==
    /\ reg[p].pc = "idle"
    /\ reg' = [reg EXCEPT ![p] =
                 IF get_user_by_username(users, user_data.username) # 0
                 THEN [Idle EXCEPT !.pc = "done", !.user_data = user_data,
                                   !.res = username_taken,
                                   !.began = Len(users)]
                 ELSE IF get_user_by_email(users, user_data.email) # 0
                 THEN [Idle EXCEPT !.pc = "done", !.user_data = user_data,
                                   !.res = email_registered,
                                   !.began = Len(users)]
                 ELSE [Idle EXCEPT !.pc = "checked_email", !.user_data = user_data,
                                   !.began = Len(users)]]
    /\ UNCHANGED <<hasher, users, clock, advances, held, last, probe, knows>>

\* lines 28-32: the lookup by email
RegCheckEmail(p, user_data) ==
    /\ reg[p].pc = "idle"
    /\ reg' = [reg EXCEPT ![p] =
                 IF get_user_by_email(users, user_data.email) # 0
                 THEN [Idle EXCEPT !.pc = "done", !.user_data = user_data,
                                   !.res = email_registered,
                                   !.began = Len(users)]
                 ELSE [Idle EXCEPT !.pc = "checked_email", !.user_data = user_data,
                                   !.began = Len(users)]]
    /\ UNCHANGED <<hasher,users, clock, advances, held, last, probe, knows>>

\* lines 35-50: the lookup by username, then the hash and the new row
RegCheckUsername(p, salt) ==
    /\ reg[p].pc = "checked_email"
    /\ reg' = [reg EXCEPT ![p] =
                 IF get_user_by_username(users, reg[p].user_data.username) # 0
                 THEN [@ EXCEPT !.pc = "done", !.res = username_taken]
                 ELSE [@ EXCEPT !.pc = "hashed",
                                !.db_user = new_user(reg[p].user_data, salt)]]
    /\ UNCHANGED <<hasher,users, clock, advances, held, last, probe, knows>>

\* mutant: IntegrityError is not caught
RegCommit_unhandled(p) ==
    LET done == db_commit(users, reg[p].db_user) IN
    /\ reg[p].pc = "hashed"
    /\ users' = done.users
    /\ knows' = IF done.ok THEN Append(knows, reg[p].user_data.password) ELSE knows
    /\ reg' = [reg EXCEPT ![p] =
                 [@ EXCEPT !.pc = "done",
                           !.res = IF done.ok
                                   THEN generate_tokens_for_user(
                                            done.users, Len(done.users), 201, clock)
                                   ELSE InternalServerError]]
    /\ UNCHANGED <<hasher,clock, advances, held, last, probe>>

\* lines 52-62 and 69-70: the commit, then the tokens or the rollback
RegCommit(p) ==
    LET done == db_commit(users, reg[p].db_user) IN
    /\ reg[p].pc = "hashed"
    /\ users' = done.users
    /\ knows' = IF done.ok THEN Append(knows, reg[p].user_data.password) ELSE knows
    /\ reg' = [reg EXCEPT ![p] =
                 [@ EXCEPT !.pc = "done",
                           !.res = IF done.ok
                                   THEN generate_tokens_for_user(
                                            done.users, Len(done.users), 201, clock)
                                   ELSE integrity_error]]
    /\ UNCHANGED <<hasher,clock, advances, held, last, probe>>

\* the response is sent; the worker takes the next request
RegReturn(p) ==
    /\ reg[p].pc = "done"
    /\ reg' = [reg EXCEPT ![p] = Idle]
    /\ UNCHANGED <<hasher,users, clock, advances, held, last, probe, knows>>

---------------------------------------------------------------------------
(* The password utilities called directly: a digest is made by             *)
(* get_password_hash, or comes from elsewhere, and a password is then      *)
(* verified against it, alone and as the stored digest of a user who logs  *)
(* in.                                                                     *)

\* strings that no call of get_password_hash returns
ForeignDigests ==
    {[scheme |-> "", salt |-> "", sum |-> <<"", "">>],
     [scheme |-> "plaintext", salt |-> "", sum |-> <<"", "a">>]}

\* a bcrypt digest cut short
damaged(hashed_password) == [hashed_password EXCEPT !.scheme = "bcrypt, cut short"]

NoHasher ==
    [origin |-> "none", password |-> NoPassword,
     hashed_password |-> get_password_hash_with(NoPassword, ""),
     plain_password |-> NoPassword, out |-> "not called", login |-> NoResponse]

HasherHash(password, salt) ==
    /\ hasher' = [NoHasher EXCEPT
                    !.origin = "hash", !.password = password,
                    !.hashed_password = get_password_hash_with(password, salt)]
    /\ UNCHANGED <<users, clock, advances, held, last, reg, probe, knows>>

HasherDamage ==
    /\ hasher.origin = "hash"
    /\ hasher' = [NoHasher EXCEPT
                    !.origin = "damaged", !.password = hasher.password,
                    !.hashed_password = damaged(hasher.hashed_password)]
    /\ UNCHANGED <<users, clock, advances, held, last, reg, probe, knows>>

HasherForeign(hashed_password) ==
    /\ hasher' = [NoHasher EXCEPT
                    !.origin = "foreign", !.hashed_password = hashed_password]
    /\ UNCHANGED <<users, clock, advances, held, last, reg, probe, knows>>

\* verify_password on the digest, and login_user for the one user who has it
HasherVerify(plain_password) ==
    LET row == [email |-> "a@x.com", username |-> "alice",
                hashed_password |-> hasher.hashed_password,
                is_active |-> is_active_default]
    IN  /\ hasher.origin # "none"
        /\ hasher' = [hasher EXCEPT
                        !.plain_password = plain_password,
                        !.out = verify_password(plain_password, hasher.hashed_password),
                        !.login = login_user(<<row>>,
                                             UserLogin("a@x.com", plain_password),
                                             clock)]
        /\ UNCHANGED <<users, clock, advances, held, last, reg, probe, knows>>

---------------------------------------------------------------------------
(* Specifications *)

Init ==
    /\ hasher = NoHasher
    /\ users = <<>>
    /\ knows = <<>>
    /\ clock = 0
    /\ advances = 0
    /\ held = NoPair
    /\ last = NoRequest
    /\ reg = [p \in Procs |-> Idle]
    /\ probe = NoProbe

RegisterRequests ==
    {UserRegister(e, u, p) : e \in Emails, u \in Usernames, p \in RegisterPasswords}

\* the accounts of the token flows: one username and one password each
SessionRequests ==
    {UserRegister("a@x.com", "alice", [head |-> "a", tail |-> ""]),
     UserRegister("b@x.com", "a@x.com", [head |-> "a", tail |-> ""])}

\* no token depends on the salt of a digest: one salt serves the token flows
SessionSalts == {"s1"}

SessionLogins ==
    {UserLogin(i, p) : i \in Emails,
                       p \in {[head |-> "a", tail |-> ""], [head |-> "L", tail |-> "x"]}}

\* the token flows, one request at a time, as the clock moves
Next ==
    \/ \E d \in FlowJumps : Tick(d)
    \/ \E r \in SessionRequests, salt \in SessionSalts : Register(r, salt)
    \/ \E l \in SessionLogins : Login(l)
    \/ \E t \in PresentedTokens : Refresh(BearerToken(t))
    \/ \E t \in PresentedTokens : Identify(BearerToken(t))
    \/ Deliver
    \/ \E id \in UserIds, b \in BOOLEAN : SetActive(id, b)

Spec == Init /\ [][Next]_vars

\* register and login, one request at a time
NextLogin ==
    \/ \E r \in RegisterRequests, salt \in Salts : Register(r, salt)
    \/ \E i \in LoginIdentifiers, p \in LoginPasswords : Login(UserLogin(i, p))
    \/ Deliver
    \/ \E id \in UserIds, b \in BOOLEAN : SetActive(id, b)

SpecLogin == Init /\ [][NextLogin]_vars

\* the token utilities alone
NextCodec ==
    \/ \E d \in Jumps : Advance(d)
    \/ \E k \in TokenType, s \in IssueSubjects : CodecIssue(k, s)
    \/ \E t \in ForgedTokens(clock) : CodecForge(t)
    \/ \E k \in TokenType : CodecParse(k)

SpecCodec == Init /\ [][NextCodec]_vars

\* every flow at once: register flows of two workers, interleaved with
\* logins, refreshes and identifications
NextFrame ==
    \/ \E p \in Procs, r \in SessionRequests : RegCheckEmail(p, r)
    \/ \E p \in Procs, salt \in SessionSalts : RegCheckUsername(p, salt)
    \/ \E p \in Procs : RegCommit(p)
    \/ \E p \in Procs : RegReturn(p)
    \/ \E l \in SessionLogins : Login(l)
    \/ \E t \in PresentedTokens : Refresh(BearerToken(t))
    \/ \E t \in PresentedTokens : Identify(BearerToken(t))
    \/ Deliver
    \/ \E id \in UserIds, b \in BOOLEAN : SetActive(id, b)

SpecFrame == Init /\ [][NextFrame]_vars

\* the password utilities alone
NextHasher ==
    \/ \E p \in Passwords, salt \in Salts : HasherHash(p, salt)
    \/ HasherDamage
    \/ \E d \in ForeignDigests : HasherForeign(d)
    \/ \E p \in Passwords : HasherVerify(p)

SpecHasher == Init /\ [][NextHasher]_vars

\* register flows of two workers, interleaved
NextRace ==
    \/ \E p \in Procs, r \in RegisterRequests : RegCheckEmail(p, r)
    \/ \E p \in Procs, salt \in Salts : RegCheckUsername(p, salt)
    \/ \E p \in Procs : RegCommit(p)
    \/ \E p \in Procs : RegReturn(p)

SpecRace == Init /\ [][NextRace]_vars

---------------------------------------------------------------------------
(* Properties of the token utilities, under SpecCodec *)

ttl_of(kind) == IF kind = ACCESS THEN AccessTTL ELSE RefreshTTL

Issued == probe.kind \in TokenType
Parsed == probe.at >= 0

\* C2: a token issued for subject s and parsed with its own type at the
\* instant it was issued is accepted, and the payload returned names s.
IssueParseRoundTrip ==
    (Issued /\ Parsed /\ probe.at = probe.iat /\ probe.expected = probe.kind)
        => (probe.out.ok /\ probe.out.payload.sub = probe.sub)

IssueParseRoundTripWitness ==
    /\ probe.kind = REFRESH /\ probe.expected = REFRESH
    /\ probe.at = probe.iat /\ probe.iat > 0
    /\ probe.out.ok /\ probe.out.payload.sub = str_uuid(2)

\* C3 as stated: a token issued at clock c with TTL t is rejected at every
\* clock greater than c + t and, parsed with its own type, accepted at every
\* clock less than c + t.
ExpiryAtEveryClock ==
    (Issued /\ Parsed) =>
        LET expiry == probe.iat + ttl_of(probe.kind) * TicksPerSecond IN
        /\ probe.at > expiry => ~probe.out.ok
        /\ (probe.at < expiry /\ probe.expected = probe.kind) => probe.out.ok

\* C3 amended: expiry is kept and compared in whole seconds.  The token,
\* parsed with its own type, is accepted exactly while the clock's whole
\* second is at most the whole second of c plus t: it is rejected with
\* "Invalid token" at every clock of c + t + 1 s or more and accepted at every
\* clock less than c + t.
ExpiryInWholeSeconds ==
    (Issued /\ Parsed) =>
        LET expiry == probe.iat + ttl_of(probe.kind) * TicksPerSecond IN
        /\ probe.at >= expiry + TicksPerSecond
              => (~probe.out.ok /\ probe.out.err = "Invalid token")
        /\ (probe.at < expiry /\ probe.expected = probe.kind) => probe.out.ok
        /\ probe.expected = probe.kind
              => (probe.out.ok <=>
                    Seconds(probe.at) <= Seconds(probe.iat) + ttl_of(probe.kind))

ExpiryInWholeSecondsWitness ==
    /\ Issued /\ Parsed /\ probe.expected = probe.kind
    /\ probe.at = probe.iat + ttl_of(probe.kind) * TicksPerSecond + TicksPerSecond
    /\ ~probe.out.ok

\* C9: no token signed with the access secret is accepted as a refresh
\* token, and none signed with the refresh secret as an access token,
\* whatever its payload.
SecretSeparation ==
    (Parsed /\ probe.token.wf) =>
        /\ (probe.token.key = SECRET_KEY /\ probe.expected = REFRESH) => ~probe.out.ok
        /\ (probe.token.key = REFRESH_TOKEN_SECRET_KEY /\ probe.expected = ACCESS)
              => ~probe.out.ok

SecretSeparationWitness ==
    /\ Parsed /\ probe.kind = "forged"
    /\ probe.token.key = SECRET_KEY /\ probe.token.typ = REFRESH
    /\ probe.token.sub = str_uuid(1) /\ probe.token.exp >= Seconds(probe.at)
    /\ probe.expected = REFRESH /\ ~probe.out.ok

\* the token parsed is correctly signed for the expected type, of that type,
\* and unexpired
ParsedSound ==
    /\ Parsed /\ probe.token.wf
    /\ probe.token.key = secret_for(probe.expected)
    /\ probe.token.typ = probe.expected
    /\ probe.token.exp >= Seconds(probe.at)

\* C13 as stated: a correctly signed, unexpired token of the expected type
\* whose sub is missing, not a string, or the empty string is rejected.
CodecSubjectCheckAsStated ==
    (ParsedSound /\ probe.token.sub.form \in {"missing", "int", "empty"})
        => ~probe.out.ok

\* C13 amended: such a token is rejected, with "Invalid token", exactly when
\* its sub is present and not a string; with a missing or an empty sub it is
\* accepted and its payload returned as it is.
CodecSubjectCheck ==
    ParsedSound =>
        /\ probe.out.ok <=> probe.token.sub.form # "int"
        /\ ~probe.out.ok => probe.out.err = "Invalid token"
        /\ probe.out.ok => probe.out.payload.sub = probe.token.sub

CodecSubjectCheckWitness ==
    /\ ParsedSound /\ probe.kind = "forged"
    /\ probe.token.sub = NoSub
    /\ probe.expected = REFRESH
    /\ probe.out.ok /\ probe.out.payload.sub = NoSub

---------------------------------------------------------------------------
(* Properties of the token flows, under Spec *)

\* the access tokens the handlers have issued that are still in sight
IssuedAccessTokens == {held.access_token, last.res.access_token} \ {NoToken}

\* C1: no access token issued by Register, Login or Refresh is accepted as a
\* refresh token: at every clock and in every state of the user table,
\* get_token_payload(token, REFRESH) raises and refresh_access_token answers
\* 401 with no token.
AccessTokenNeverRefreshes ==
    /\ \A t \in IssuedAccessTokens :
          /\ ~get_token_payload(t, REFRESH, clock).ok
          /\ refresh_access_token(users, t, clock) = refresh_credentials_exception
    /\ (last.op = "refresh" /\ last.req.token \in IssuedAccessTokens)
          => /\ last.res.status = 401
             /\ last.res.access_token = NoToken
             /\ last.res.refresh_token = NoToken

AccessTokenNeverRefreshesWitness ==
    /\ last.op = "refresh" /\ held.op # "none"
    /\ last.req.token = held.access_token
    /\ held.refresh_token.sub = held.access_token.sub
    /\ held.access_token.exp - AccessTTL > held.refresh_token.exp - RefreshTTL
    /\ held.access_token.exp >= Seconds(last.at)
    /\ users[held.access_token.sub.id].is_active
    /\ last.res = refresh_credentials_exception

\* the client holds the pair exactly as Login returned it
LoginPair ==
    /\ held.op = "login"
    /\ held.access_token.exp - AccessTTL = held.refresh_token.exp - RefreshTTL

RefreshOfLoginPair ==
    /\ last.op = "refresh" /\ LoginPair
    /\ last.req.token = held.refresh_token

\* C5 as stated: a Refresh with the refresh token of a Login that succeeds
\* echoes that refresh token and returns an access token distinct from the
\* Login's, at whatever clock it runs, the tick of the Login included.
RefreshAccessTokenAlwaysDistinct ==
    (RefreshOfLoginPair /\ last.res.status = 200) =>
        /\ last.res.refresh_token = held.refresh_token
        /\ last.res.access_token # held.access_token

\* C5 amended: while the user is active and the refresh token has not
\* expired, the Refresh succeeds, echoes the refresh token, and returns an
\* access token that differs from the Login's exactly when the Refresh runs
\* in a later whole second than the Login; otherwise it answers 401.
RefreshAccessTokenDistinctInLaterSecond ==
    RefreshOfLoginPair =>
        LET u == held.refresh_token.sub.id
            live == /\ u \in DOMAIN users
                    /\ users[u].is_active
                    /\ Seconds(last.at) <= held.refresh_token.exp
            login_second == held.refresh_token.exp - RefreshTTL
        IN  /\ live => /\ last.res.status = 200
                       /\ last.res.token_type = "bearer"
                       /\ last.res.refresh_token = held.refresh_token
                       /\ last.res.access_token # NoToken
                       /\ (last.res.access_token # held.access_token
                             <=> Seconds(last.at) # login_second)
            /\ ~live => last.res = refresh_credentials_exception

RefreshAccessTokenDistinctInLaterSecondWitness ==
    /\ RefreshOfLoginPair
    /\ last.res.status = 200
    /\ last.res.refresh_token = held.refresh_token
    /\ last.res.access_token # held.access_token
    /\ last.res.access_token.sub = held.access_token.sub

\* C10: Identify answers 401 whenever the token is malformed, expired, not
\* an access token, without a well-formed subject, or names no stored user;
\* it answers 403 exactly when a valid access token names a disabled user,
\* and returns the user exactly when a valid access token names an active
\* one.
IdentifyErrorClasses ==
    last.op = "identify" =>
        LET t == last.req.token
            parses == /\ t.wf /\ t.key = SECRET_KEY /\ t.typ = ACCESS
                      /\ t.exp >= Seconds(last.at)
            named == IF t.sub.form \in {"canonical", "urn"} THEN t.sub.id ELSE 0
            valid == parses /\ named \in DOMAIN users
        IN  /\ ~valid => last.res = credentials_exception
            /\ last.res.status = 403 <=> (valid /\ ~users[named].is_active)
            /\ last.res.status = 200 <=> (valid /\ users[named].is_active)
            /\ last.res.status = 200 => last.res.user = named
            /\ last.res.status \in {200, 401, 403}
            /\ last.res.access_token = NoToken

IdentifyErrorClassesWitness ==
    /\ last.op = "identify" /\ held.op # "none"
    /\ last.req.token = held.access_token
    /\ last.res.status = 403
    /\ held.access_token.exp = Seconds(last.at)

\* C11: Refresh with a correctly signed, unexpired refresh token whose
\* subject names no stored user or a disabled one answers with the very
\* response (status, detail, no token) it gives for a malformed, expired or
\* wrong-type token.
RefreshIndistinguishable ==
    last.op = "refresh" =>
        LET t == last.req.token
            signed == /\ t.wf /\ t.key = REFRESH_TOKEN_SECRET_KEY /\ t.typ = REFRESH
                      /\ t.exp >= Seconds(last.at)
            named == IF t.sub.form \in {"canonical", "urn"} THEN t.sub.id ELSE 0
            gone == /\ signed /\ named # 0
                    /\ (named \in DOMAIN users => ~users[named].is_active)
            bad == ~t.wf \/ t.exp < Seconds(last.at) \/ t.typ # REFRESH
        IN  /\ (gone \/ bad) => last.res = refresh_credentials_exception
            /\ last.res.status # 200 => last.res = refresh_credentials_exception

RefreshIndistinguishableWitness ==
    /\ last.op = "refresh" /\ held.op # "none"
    /\ last.req.token = held.refresh_token
    /\ held.refresh_token.sub = held.access_token.sub
    /\ held.refresh_token.exp > Seconds(last.at)
    /\ ~users[held.refresh_token.sub.id].is_active
    /\ last.res = refresh_access_token(users, MalformedToken, last.at)
    /\ last.res = refresh_access_token(users, held.access_token, last.at)

\* a Refresh with the refresh token the client got from Register or Login
RefreshOfOwnToken ==
    /\ last.op = "refresh" /\ held.op \in {"register", "login"}
    /\ last.req.token = held.refresh_token
    /\ held.refresh_token.sub.form = "canonical"
    /\ held.refresh_token.exp = Seconds(held.at) + RefreshTTL

\* C19 as stated: a refresh token serves any number of successful Refresh
\* calls while its user is active and the clock has not passed its issuance
\* plus the refresh TTL, no Refresh changes it, and once the clock is past
\* issuance plus the refresh TTL every Refresh with it answers 401.
RefreshUntilExpiryAsStated ==
    RefreshOfOwnToken =>
        LET u == held.refresh_token.sub.id
            expiry == held.at + RefreshTTL * TicksPerSecond
        IN  /\ (last.at <= expiry /\ users[u].is_active) =>
                  /\ last.res.status = 200
                  /\ last.res.refresh_token = held.refresh_token
            /\ last.at > expiry => last.res = refresh_credentials_exception

\* the refresh token is accepted exactly while the clock's whole second is
\* at most its exp, the whole second of its issuance plus the refresh TTL
RefreshWhileUnexpired ==
    RefreshOfOwnToken =>
        LET u == held.refresh_token.sub.id
            expiry == held.at + RefreshTTL * TicksPerSecond
            unexpired == Seconds(last.at) <= held.refresh_token.exp
        IN  /\ (unexpired /\ users[u].is_active) =>
                  /\ last.res.status = 200
                  /\ last.res.refresh_token = held.refresh_token
                  /\ last.res.access_token.exp = Seconds(last.at) + AccessTTL
            /\ ~unexpired => last.res = refresh_credentials_exception
            /\ last.at <= expiry => unexpired
            /\ last.at >= expiry + TicksPerSecond => ~unexpired

\* taking the response of a Refresh leaves the client's refresh token as it
\* was, and serving a Refresh changes nothing but the response
RefreshKeepsToken ==
    /\ (last.op = "refresh" /\ last.req.token = held.refresh_token /\ last' # last)
          => /\ held'.refresh_token = held.refresh_token
             /\ held'.at = held.at
    /\ (last.op = "none" /\ last'.op = "refresh")
          => /\ users' = users /\ held' = held
             /\ last'.res = refresh_access_token(users, last'.req.token, clock)

\* C19 amended: a refresh token serves any number of successful Refresh
\* calls while its user is active and the clock's whole second is at most the
\* whole second of its issuance plus the refresh TTL; no Refresh changes the
\* token or its expiry; from one full second past issuance plus the refresh
\* TTL on, every Refresh with it answers 401.
RefreshUntilExpiry == []RefreshWhileUnexpired /\ [][RefreshKeepsToken]_vars

RefreshUntilExpiryWitness ==
    /\ RefreshOfOwnToken
    /\ held.access_token.exp - AccessTTL > held.refresh_token.exp - RefreshTTL
    /\ last.at > held.at + RefreshTTL * TicksPerSecond
    /\ last.res.status = 200
    /\ last.res.refresh_token = held.refresh_token

\* the user a token response was made for: the row just stored for Register,
\* the user Login resolved, the user the refresh token names for Refresh
MadeFor ==
    IF last.op = "register" THEN Len(users)
    ELSE IF last.op = "login"
    THEN (IF get_user_by_email(users, last.req.email_or_username) # 0
          THEN get_user_by_email(users, last.req.email_or_username)
          ELSE get_user_by_username(users, last.req.email_or_username))
    ELSE uuid_UUID(last.req.token.sub)

\* C18: every token issued names as its subject a stored user, the one whose
\* flow produced it: the user just stored for Register, the active user
\* whose password verified for Login, the active user the presented refresh
\* token names for Refresh; and Identify with an access token a user holds
\* resolves to that user only.
TokenBinding ==
    /\ last.res.token_type = "bearer" =>
          LET u == MadeFor IN
          /\ last.op \in {"register", "login", "refresh"}
          /\ u \in DOMAIN users
          /\ last.res.access_token.sub = str_uuid(u)
          /\ last.res.access_token.email = users[u].email
          /\ last.op = "register" =>
                /\ users[u].email = last.req.email
                /\ users[u].username = last.req.username
                /\ last.res.refresh_token.sub = str_uuid(u)
          /\ last.op = "login" =>
                /\ users[u].is_active
                /\ verify_password(last.req.password, users[u].hashed_password) = "true"
                /\ last.res.refresh_token.sub = str_uuid(u)
          /\ last.op = "refresh" =>
                /\ users[u].is_active
                /\ last.res.refresh_token = last.req.token
    /\ (last.op = "identify" /\ last.res.status = 200) =>
          /\ last.res.user = uuid_UUID(last.req.token.sub)
          /\ last.res.user \in DOMAIN users

TokenBindingWitness ==
    /\ last.op = "identify" /\ held.op = "login"
    /\ last.req.token = held.access_token
    /\ held.access_token.sub = str_uuid(2)
    /\ held.access_token.email = "b@x.com"
    /\ last.res.status = 200 /\ last.res.user = 2

---------------------------------------------------------------------------
(* Properties of register and login, under SpecLogin *)

\* the user a login identifier resolves to, 0 when there is none
resolved(identifier) ==
    IF get_user_by_email(users, identifier) # 0
    THEN get_user_by_email(users, identifier)
    ELSE get_user_by_username(users, identifier)

\* C4 as stated: for a disabled account, Login with the password the account
\* was registered with answers 403, and Login with any other password
\* answers 401, never 403.
LoginGateOrdering ==
    last.op = "login" =>
        LET u == resolved(last.req.email_or_username) IN
        (u # 0 /\ ~users[u].is_active) =>
            /\ last.req.password = knows[u] => last.res.status = 403
            /\ last.req.password # knows[u] => last.res.status = 401

\* what login_user answers when authenticate_user returns None
incorrect_credentials == HTTPException(401, "Incorrect email/username or password")

\* C12 as stated: Login with an identifier that matches no user, and Login
\* with an identifier that matches a user but a password other than the one
\* registered, answer the same 401, whether that user is active or disabled.
LoginIndistinguishable ==
    last.op = "login" =>
        LET u == resolved(last.req.email_or_username) IN
        /\ u = 0 => last.res = incorrect_credentials
        /\ (u # 0 /\ last.req.password # knows[u]) => last.res = incorrect_credentials

\* C16 as stated: Login resolves the identifier as an email first and as a
\* username only when no user has that email, and succeeds only with the
\* password that one user registered, returning tokens for that user; when
\* the identifier is A's email and B's username, B's password is answered
\* 401.
LoginResolution ==
    last.op = "login" =>
        LET by_email == get_user_by_email(users, last.req.email_or_username)
            by_username == get_user_by_username(users, last.req.email_or_username)
            u == IF by_email # 0 THEN by_email ELSE by_username
        IN  /\ last.res.status = 200 =>
                  /\ u # 0 /\ last.req.password = knows[u]
                  /\ last.res.access_token.sub = str_uuid(u)
                  /\ last.res.refresh_token.sub = str_uuid(u)
            /\ (/\ by_email # 0 /\ by_username # 0 /\ by_username # by_email
                /\ last.req.password = knows[by_username]
                /\ knows[by_username] # knows[by_email])
                  => last.res = incorrect_credentials

---------------------------------------------------------------------------
(* Properties of the password utilities, under SpecHasher *)

Verified == hasher.out # "not called"

\* C14 as stated: verify_password returns false, and does not raise, for a
\* digest that get_password_hash did not make; Login of a user with such a
\* stored digest answers 401.
HasherVerifyMalformed ==
    (Verified /\ hasher.origin \in {"damaged", "foreign"}) =>
        /\ hasher.out = "false"
        /\ hasher.login = incorrect_credentials

\* C15 as stated: verify_password(p, get_password_hash(p)) is true, and
\* verify_password(p', get_password_hash(p)) is false for every p' other
\* than p, however long the prefix they share.
HasherRoundTrip ==
    (Verified /\ hasher.origin = "hash") =>
        (hasher.out = "true" <=> hasher.plain_password = hasher.password)

---------------------------------------------------------------------------
(* Properties of concurrent register flows, under SpecRace *)

\* the rows stored when worker p took its request
RowsBefore(p) == 1 .. reg[p].began

Finished(p) == reg[p].pc = "done"

\* p got as far as the commit
Committing(p) ==
    Finished(p) /\ reg[p].res \notin {email_registered, username_taken}

NoTokens(res) == res.access_token = NoToken /\ res.refresh_token = NoToken

\* C6 as stated: once (e, u) is registered, a later Register with e and
\* another username answers "Email already registered", and a later Register
\* with u and another email answers "Username already taken".
RegisterTakenErrorsAsStated ==
    \A p \in Procs : Finished(p) =>
        LET d == reg[p].user_data IN
        \A i \in RowsBefore(p) :
            /\ (users[i].email = d.email /\ users[i].username # d.username)
                  => reg[p].res = email_registered
            /\ (users[i].username = d.username /\ users[i].email # d.email)
                  => reg[p].res = username_taken

\* C6 amended: a later Register whose email is stored answers "Email already
\* registered"; one whose username is stored answers "Username already
\* taken" provided its email is stored for no user; either way it returns no
\* token and stores no row.
RegisterTakenErrors ==
    \A p \in Procs : Finished(p) =>
        LET d == reg[p].user_data
            email_stored == \E i \in RowsBefore(p) : users[i].email = d.email
            username_stored == \E i \in RowsBefore(p) : users[i].username = d.username
        IN  /\ email_stored => reg[p].res = email_registered
            /\ (~email_stored /\ username_stored) => reg[p].res = username_taken
            /\ (email_stored \/ username_stored) =>
                  /\ reg[p].res.status = 400
                  /\ NoTokens(reg[p].res)
                  /\ \A i \in DOMAIN users \ RowsBefore(p) :
                        ~(users[i].email = d.email /\ users[i].username = d.username)

RegisterTakenErrorsWitness ==
    \E p \in Procs :
        /\ Finished(p) /\ reg[p].res = username_taken
        /\ \E i \in RowsBefore(p) :
              /\ users[i].username = reg[p].user_data.username
              /\ users[i].email # reg[p].user_data.email
        /\ Len(users) = reg[p].began

\* where each finished flow stopped, by what was stored when it began
PrecedenceOutcome ==
    \A p \in Procs : Finished(p) =>
        LET d == reg[p].user_data
            email_stored == \E i \in RowsBefore(p) : users[i].email = d.email
        IN  /\ email_stored <=> reg[p].res = email_registered
            /\ reg[p].res = username_taken =>
                  /\ ~email_stored
                  /\ \E i \in DOMAIN users : users[i].username = d.username
            /\ reg[p].res \in {email_registered, username_taken}
                  => reg[p].db_user = NoRow

\* the password is hashed only by a flow past both lookups, and a row is
\* stored only by a flow that has hashed
HashAfterChecks ==
    /\ \A p \in Procs :
          (reg[p].db_user = NoRow /\ reg'[p].db_user # NoRow) =>
              /\ reg[p].pc = "checked_email"
              /\ ~\E i \in RowsBefore(p) : users[i].email = reg[p].user_data.email
              /\ get_user_by_username(users, reg[p].user_data.username) = 0
              /\ reg'[p].db_user.email = reg[p].user_data.email
              /\ reg'[p].db_user.username = reg[p].user_data.username
    /\ users' # users =>
          \E p \in Procs : /\ reg[p].pc = "hashed"
                           /\ users' = Append(users, reg[p].db_user)

\* C17: Register looks the email up before the username: a Register whose
\* email is stored answers "Email already registered" even when its username
\* is stored too, "Username already taken" is answered only when the email
\* is not stored, and the password is hashed and the insert attempted only
\* after both lookups found nothing.
RegisterPrecedence == []PrecedenceOutcome /\ [][HashAfterChecks]_vars

RegisterPrecedenceWitness ==
    \E p \in Procs :
        /\ Finished(p) /\ reg[p].res = email_registered
        /\ \E i, j \in RowsBefore(p) :
              /\ i # j
              /\ users[i].email = reg[p].user_data.email
              /\ users[j].username = reg[p].user_data.username

\* the outcome of two flows that both reached the commit with the same email
\* or the same username
RaceOutcome ==
    \A p, q \in Procs :
        (/\ p # q /\ Committing(p) /\ Committing(q)
         /\ \/ reg[p].user_data.email = reg[q].user_data.email
            \/ reg[p].user_data.username = reg[q].user_data.username)
        => \/ /\ reg[p].res.status = 201
              /\ reg[q].res = integrity_error /\ NoTokens(reg[q].res)
           \/ /\ reg[q].res.status = 201
              /\ reg[p].res = integrity_error /\ NoTokens(reg[p].res)

\* a commit stores one row and answers 201, or stores nothing and answers 400
CommitStep ==
    \A p \in Procs :
        (reg[p].pc = "hashed" /\ reg'[p].pc = "done") =>
            \/ /\ reg'[p].res.status = 201
               /\ users' = Append(users, reg[p].db_user)
            \/ /\ reg'[p].res.status = 400 /\ NoTokens(reg'[p].res)
               /\ users' = users

\* C7: when two Register flows with the same email or the same username both
\* pass the lookups, exactly one commit stores a row; the other flow answers
\* 400 "User with this email or username already exists", stores nothing and
\* returns no token.
RegisterRace == []RaceOutcome /\ [][CommitStep]_vars

RegisterRaceWitness ==
    /\ Committing(1) /\ Committing(2)
    /\ reg[1].user_data.email = reg[2].user_data.email
    /\ reg[1].user_data.username # reg[2].user_data.username
    /\ reg[1].began = 0 /\ reg[2].began = 0
    /\ reg[1].res.status = 201 /\ reg[2].res = integrity_error
    /\ Len(users) = 1

---------------------------------------------------------------------------
(* Properties of all the flows together, under SpecFrame *)

\* the step is one of a flow: a request is served, a response taken, or a
\* worker moves
FlowStep == last' # last \/ reg' # reg

\* worker p stores its row in this step
Stores(p) ==
    /\ reg[p].pc = "hashed" /\ reg'[p].pc = "done"
    /\ reg'[p].res.status = 201

OneUserMore(p) ==
    /\ Len(users') = Len(users) + 1
    /\ SubSeq(users', 1, Len(users)) = users
    /\ users'[Len(users')].email = reg[p].user_data.email
    /\ users'[Len(users')].username = reg[p].user_data.username

DirectoryFrameStep ==
    /\ (last.op = "none" /\ last'.op \in {"login", "refresh", "identify"})
          => users' = users
    /\ (last.op # "none" /\ last'.op = "none") => users' = users
    /\ \A p \in Procs :
          reg'[p] # reg[p] =>
              IF Stores(p) THEN OneUserMore(p) ELSE users' = users
    /\ (FlowStep /\ users' # users) => \E p \in Procs : Stores(p) /\ OneUserMore(p)
    /\ \A i \in DOMAIN users :
          /\ i \in DOMAIN users'
          /\ users'[i].email = users[i].email
          /\ users'[i].username = users[i].username
          /\ users'[i].hashed_password = users[i].hashed_password
          /\ FlowStep => users'[i] = users[i]

\* C20: Login, Refresh and Identify, whether they succeed or fail, and every
\* Register that fails (email stored, username stored, or commit refused and
\* rolled back) leave the user table as it was; the only change a flow makes
\* to it is the one row a successful Register appends, and no flow removes or
\* alters a row.
DirectoryFrame == [][DirectoryFrameStep]_vars

DirectoryFrameWitness ==
    /\ Len(users) = 1
    /\ \E p \in Procs : reg[p].res = integrity_error
    /\ held.op = "login"
    /\ last.op = "identify" /\ last.res.status = 403

\* C8: in every reachable state no two stored users share an email and no
\* two share a username.
DirectoryUnique ==
    \A i, j \in DOMAIN users :
        i # j => /\ users[i].email # users[j].email
                 /\ users[i].username # users[j].username

DirectoryUniqueWitness ==
    /\ Len(users) = 2
    /\ \E p \in Procs : reg[p].res = integrity_error

===========================================================================
